---- MODULE Spec2Model ----
(***************************************************************************)
(* Pomodoro timer: the engine thread (Pomodoro::start) and the keyboard    *)
(* listener (console::register_listeners) sharing the pause and exit       *)
(* flags.  Time is counted in ticks of 100 ms; instants are kept relative  *)
(* to the `start` instant captured by progress_duration.                   *)
(***************************************************************************)
EXTENDS Integers, Sequences, FiniteSets, TLC

\* ---------------------------------------------------------------- bounds
MaxSecs == 1          \* longest configured phase, in seconds
MaxCycles == 2        \* largest cycles_before_long_break
MaxPhases == 4        \* phases the engine is followed through
MaxExtra == 2         \* ticks kept apart beyond the longest phase
MaxOvershoot == 1     \* ticks a sleep may last beyond the requested one
MaxFakeSleeps == 12   \* FakeClock sleeps that are recorded
MaxArgs == 4          \* arguments after the program name

\* ------------------------------------------------------ program constants
TicksPerSec == 10     \* 1 s / tick, tick = Duration::from_millis(100)

Min(a, b) == IF a < b THEN a ELSE b

MaxNow == TicksPerSec * MaxSecs + MaxExtra

StateTypes == {"Work", "ShortBreak", "LongBreak"}

\* key codes the terminal can deliver; "x" stands for any other key
KeyCodes == {"q", "Q", "p", "P", "x"}

\* the key events that ask for a pause toggle
PauseKeys == {"p", "P"}

VARIABLES
    config,             \* Config: the three durations (s) and the cycle count
    state_type,         \* State.state_type
    cycles_completed,   \* State.cycles_completed
    pause,              \* State.pause (shared AtomicBool)
    exit,               \* State.exit  (shared AtomicBool)
    clock,              \* the Clock implementation injected into the engine
    e_pc,               \* engine thread: position in start/progress_duration
    total_secs,         \* progress_duration: total_secs
    now,                \* Instant::now() - start, in ticks
    fake_now,           \* FakeClock.now - start, in ticks (sum of FakeClock.sleeps)
    l_pc,               \* listener: position in register_listeners / main
    raw_mode,           \* terminal raw mode enabled
    result,             \* what register_listeners returned
    joined,             \* handle.join() has returned
    last_key,           \* the event the listener has read and is handling
    \* history of the run
    phases,             \* state_type values the engine has been in, in order
    unpaused,           \* ticks slept outside the pause branch in this phase
    exit_break,         \* the wait loop of this phase was left by the exit check
    alerts,             \* calls of notifier.alert_state_change
    completed,          \* phases whose countdown reached total_secs
    sleeps_after_exit,  \* clock.sleep calls begun while exit was already true
    pause_keys,         \* pause-key events the listener has handled, modulo 2
    \* the console
    stdout_lock,        \* holder of the lock of stdout
    line2,              \* what row 1 of the terminal shows
    upd,                \* engine: position in console::update_status
    e_paused,           \* update_status: the value loaded from state.pause
    l_paused,           \* listener: the argument of update_paused
    \* Config::build
    args,               \* env::args(): the program name is args[1]
    build_result        \* what Config::build(&args) gave

vars == <<config, state_type, cycles_completed, pause, exit, clock, e_pc,
          total_secs, now, fake_now, l_pc, raw_mode, result, joined, last_key,
          phases, unpaused, exit_break, alerts, completed, sleeps_after_exit,
          pause_keys, stdout_lock, line2, upd, e_paused, l_paused,
          args, build_result>>

build_vars == <<args, build_result>>

display_vars == <<stdout_lock, line2, upd, e_paused, l_paused>>

engine_vars == <<state_type, cycles_completed, e_pc, total_secs, now, fake_now,
                 phases, unpaused, exit_break, alerts, completed,
                 sleeps_after_exit>>

listener_vars == <<l_pc, raw_mode, result, joined, last_key, pause_keys>>

Configs ==
    [work_duration : 1..MaxSecs,
     short_break_duration : 0..1,
     long_break_duration : {1},
     cycles_before_long_break : 1..MaxCycles]

\* Pomodoro::new and main: both flags false, Work, no cycle completed
InitState ==
    /\ state_type = "Work"
    /\ cycles_completed = 0
    /\ pause = FALSE
    /\ exit = FALSE
    /\ total_secs = 0
    /\ now = 0
    /\ fake_now = 0
    /\ raw_mode = FALSE
    /\ result = "none"
    /\ joined = FALSE
    /\ last_key = "none"
    /\ phases = <<"Work">>
    /\ unpaused = 0
    /\ exit_break = FALSE
    /\ alerts = 0
    /\ completed = 0
    /\ sleeps_after_exit = 0
    /\ pause_keys = 0
    /\ stdout_lock = "free"
    /\ line2 = ""
    /\ upd = "out"
    /\ e_paused = FALSE
    /\ l_paused = FALSE

\* the timer runs with a Config that main has already built
NoBuild ==
    /\ args = <<>>
    /\ build_result = [kind |-> "none"]

Init ==
    /\ NoBuild
    /\ config \in Configs
    /\ clock = "SystemClock"
    /\ e_pc = "start_loop"
    /\ l_pc = "clear"
    /\ InitState

\* the engine thread lives as long as the process
Running == l_pc # "exited"

EngineFinished == e_pc \in {"done", "panicked"}

\* ------------------------------------------------------------ the engine

\* start: while !self.state.exit.load(Relaxed)
StartLoop ==
    /\ Running
    /\ e_pc = "start_loop"
    /\ IF exit
         THEN e_pc' = "done"
         ELSE /\ Len(phases) <= MaxPhases
              /\ e_pc' = "start_state"
    /\ UNCHANGED <<build_vars, display_vars,
                   config, state_type, cycles_completed, pause,
                   exit, clock,
                   total_secs, now, fake_now, phases, unpaused, exit_break,
                   alerts, completed, sleeps_after_exit, listener_vars>>

PhaseDuration(c, st) ==
    CASE st = "Work" -> c.work_duration
      [] st = "ShortBreak" -> c.short_break_duration
      [] st = "LongBreak" -> c.long_break_duration

\* start_state, and progress_duration up to the loop: start = clock.now()
StartStateEffect ==
    /\ Running
    /\ e_pc = "start_state"
    /\ total_secs' = PhaseDuration(config, state_type)
    /\ now' = 0
    /\ fake_now' = 0
    /\ unpaused' = 0
    /\ exit_break' = FALSE
    /\ e_pc' = "check_exit"
    /\ UNCHANGED <<build_vars, config, state_type, cycles_completed, pause,
                   exit, clock,
                   phases, alerts, completed, sleeps_after_exit, listener_vars>>

\* start_state with the status line left as it is shown
StartState == StartStateEffect /\ UNCHANGED display_vars

\* CheckExit with the pause test placed before the exit test
CheckExit_PauseFirst ==
    /\ Running
    /\ e_pc = "check_exit"
    /\ IF pause
         THEN /\ e_pc' = "paused_tick"
              /\ UNCHANGED exit_break
         ELSE IF exit
           THEN /\ e_pc' = "finish"
                /\ exit_break' = TRUE
           ELSE /\ e_pc' = "check_pause"
                /\ UNCHANGED exit_break
    /\ UNCHANGED <<build_vars, display_vars,
                   config, state_type, cycles_completed, pause,
                   exit, clock,
                   total_secs, now, fake_now, phases, unpaused,
                   alerts, completed, sleeps_after_exit, listener_vars>>

\* if self.state.exit.load(Relaxed) { break; }
CheckExit ==
    /\ Running
    /\ e_pc = "check_exit"
    /\ IF exit
         THEN /\ e_pc' = "finish"
              /\ exit_break' = TRUE
         ELSE /\ e_pc' = "check_pause"
              /\ UNCHANGED exit_break
    /\ UNCHANGED <<build_vars, display_vars,
                   config, state_type, cycles_completed, pause,
                   exit, clock,
                   total_secs, now, fake_now, phases, unpaused,
                   alerts, completed, sleeps_after_exit, listener_vars>>

\* CheckPause with the test negated
CheckPause_Inverted ==
    /\ Running
    /\ e_pc = "check_pause"
    /\ e_pc' = IF ~pause THEN "paused_tick" ELSE "tick"
    /\ UNCHANGED <<build_vars, display_vars,
                   config, state_type, cycles_completed, pause,
                   exit, clock,
                   total_secs, now, fake_now, phases, unpaused, exit_break,
                   alerts, completed, sleeps_after_exit, listener_vars>>

\* if self.state.pause.load(Relaxed)
CheckPause ==
    /\ Running
    /\ e_pc = "check_pause"
    /\ e_pc' = IF pause THEN "paused_tick" ELSE "tick"
    /\ UNCHANGED <<build_vars, display_vars,
                   config, state_type, cycles_completed, pause,
                   exit, clock,
                   total_secs, now, fake_now, phases, unpaused, exit_break,
                   alerts, completed, sleeps_after_exit, listener_vars>>

\* clock.sleep(tick) is entered: counted when exit is already true.  Under a
\* FakeClock only MaxFakeSleeps sleeps are followed.
SleepEntered ==
    /\ sleeps_after_exit' = IF exit THEN Min(sleeps_after_exit + 1, 3)
                                    ELSE sleeps_after_exit
    /\ clock = "FakeClock" => fake_now < MaxFakeSleeps

\* pause branch: self.status.update(&self.state); self.clock.sleep(tick) begins
PausedTickEffect ==
    /\ Running
    /\ e_pc = "paused_tick"
    /\ e_pc' = "paused_sleeping"
    /\ SleepEntered
    /\ UNCHANGED <<build_vars, config, state_type, cycles_completed, pause,
                   exit, clock,
                   total_secs, now, fake_now, phases, unpaused, exit_break,
                   alerts, completed, listener_vars>>

\* the pause branch, the display aside
PausedTick == PausedTickEffect /\ UNCHANGED display_vars

\* self.status.update(&self.state); self.clock.sleep(tick) begins
TickEffect ==
    /\ Running
    /\ e_pc = "tick"
    /\ e_pc' = "sleeping"
    /\ SleepEntered
    /\ UNCHANGED <<build_vars, config, state_type, cycles_completed, pause,
                   exit, clock,
                   total_secs, now, fake_now, phases, unpaused, exit_break,
                   alerts, completed, listener_vars>>

\* the unpaused branch up to the sleep, the display aside
Tick == TickEffect /\ UNCHANGED display_vars

\* what a sleep of one tick does to the clocks: SystemClock sleeps at least
\* the tick; FakeClock pushes the tick and advances its own now, taking no time
SleepReturns(d) ==
    IF clock = "SystemClock"
      THEN /\ now' = Min(now + d, MaxNow)
           /\ UNCHANGED fake_now
      ELSE /\ d = 1
           /\ fake_now' = fake_now + 1
           /\ UNCHANGED now

\* start.elapsed().as_secs()
ElapsedSecs(t) == t \div TicksPerSec

\* PausedWake whose continue re-enters the loop below the exit test
PausedWake_SkipExit ==
    /\ Running
    /\ e_pc = "paused_sleeping"
    /\ \E d \in 1..(1 + MaxOvershoot) : SleepReturns(d)
    /\ e_pc' = "check_pause"
    /\ UNCHANGED <<build_vars, display_vars,
                   config, state_type, cycles_completed, pause,
                   exit, clock,
                   total_secs, phases, unpaused, exit_break,
                   alerts, completed, sleeps_after_exit, listener_vars>>

\* PausedWake falling through to the elapsed test of the unpaused branch
PausedWake_ChecksElapsed ==
    /\ Running
    /\ e_pc = "paused_sleeping"
    /\ \E d \in 1..(1 + MaxOvershoot) : SleepReturns(d)
    /\ IF ElapsedSecs(now') >= total_secs
         THEN /\ e_pc' = "finish"
              /\ completed' = completed + 1
         ELSE /\ e_pc' = "check_exit"
              /\ UNCHANGED completed
    /\ UNCHANGED <<build_vars, display_vars,
                   config, state_type, cycles_completed, pause,
                   exit, clock, total_secs, phases, unpaused, exit_break,
                   alerts, sleeps_after_exit, listener_vars>>

\* the paused sleep returns; continue
PausedWake ==
    /\ Running
    /\ e_pc = "paused_sleeping"
    /\ \E d \in 1..(1 + MaxOvershoot) : SleepReturns(d)
    /\ e_pc' = "check_exit"
    /\ UNCHANGED <<build_vars, display_vars,
                   config, state_type, cycles_completed, pause,
                   exit, clock,
                   total_secs, phases, unpaused, exit_break,
                   alerts, completed, sleeps_after_exit, listener_vars>>

\* the sleep returns; elapsed = start.elapsed().as_secs();
\* if elapsed >= total_secs { break; }
Wake ==
    /\ Running
    /\ e_pc = "sleeping"
    /\ \E d \in 1..(1 + MaxOvershoot) :
         /\ SleepReturns(d)
         /\ unpaused' = Min(unpaused + d, MaxNow)
    /\ IF ElapsedSecs(now') >= total_secs
         THEN /\ e_pc' = "finish"
              /\ completed' = completed + 1
         ELSE /\ e_pc' = "check_exit"
              /\ UNCHANGED completed
    /\ UNCHANGED <<build_vars, display_vars,
                   config, state_type, cycles_completed, pause,
                   exit, clock,
                   total_secs, phases, exit_break,
                   alerts, sleeps_after_exit, listener_vars>>

\* what notifier.alert_state_change() can do: BeepNotifier's println! panics
\* when stdout cannot be written, the test's FakeNotifier only counts
AlertOutcomes(c) ==
    IF c = "SystemClock" THEN {"next", "panicked"} ELSE {"next"}

\* after the loop: progress_bar.finish_and_clear();
\* self.notifier.alert_state_change();
Finish ==
    /\ Running
    /\ e_pc = "finish"
    /\ alerts' = alerts + 1
    /\ e_pc' \in AlertOutcomes(clock)
    /\ UNCHANGED <<build_vars, display_vars,
                   config, state_type, cycles_completed, pause,
                   exit, clock,
                   total_secs, now, fake_now, phases, unpaused, exit_break,
                   completed, sleeps_after_exit, listener_vars>>

\* NextState comparing the counter before it is incremented
NextState_CompareFirst(st, cc, c) ==
    IF st = "Work"
      THEN [state_type |-> IF cc = c.cycles_before_long_break
                             THEN "LongBreak" ELSE "ShortBreak",
            cycles_completed |-> cc + 1]
      ELSE [state_type |-> "Work", cycles_completed |-> cc]

\* NextState counting every call, not only those that leave Work
NextState_CountsBreaks(st, cc, c) ==
    IF st = "Work"
      THEN [state_type |-> IF cc + 1 = c.cycles_before_long_break
                             THEN "LongBreak" ELSE "ShortBreak",
            cycles_completed |-> cc + 1]
      ELSE [state_type |-> "Work", cycles_completed |-> cc + 1]

\* NextState starting the count again when the long break is reached
NextState_ResetOnLong(st, cc, c) ==
    IF st = "Work"
      THEN IF cc + 1 = c.cycles_before_long_break
             THEN [state_type |-> "LongBreak", cycles_completed |-> 0]
             ELSE [state_type |-> "ShortBreak", cycles_completed |-> cc + 1]
      ELSE [state_type |-> "Work", cycles_completed |-> cc]

\* Pomodoro::next as a function of the state and the configuration
NextState(st, cc, c) ==
    IF st = "Work"
      THEN [state_type |-> IF cc + 1 = c.cycles_before_long_break
                             THEN "LongBreak" ELSE "ShortBreak",
            cycles_completed |-> cc + 1]
      ELSE [state_type |-> "Work", cycles_completed |-> cc]

\* self.next() in start
NextPhase ==
    /\ Running
    /\ e_pc = "next"
    /\ LET n == NextState(state_type, cycles_completed, config) IN
         /\ state_type' = n.state_type
         /\ cycles_completed' = n.cycles_completed
         /\ phases' = Append(phases, n.state_type)
    /\ e_pc' = "start_loop"
    /\ UNCHANGED <<build_vars, display_vars,
                   config, pause, exit, clock, total_secs, now,
                   fake_now,
                   unpaused, exit_break, alerts, completed, sleeps_after_exit,
                   listener_vars>>

Engine ==
    \/ StartLoop
    \/ StartState
    \/ CheckExit
    \/ CheckPause
    \/ PausedTick
    \/ PausedWake
    \/ Tick
    \/ Wake
    \/ Finish
    \/ NextPhase

\* ---------------------------------------------------------- the listener

\* clear_console(&mut out)?
ClearConsoleEffect ==
    /\ l_pc = "clear"
    /\ \/ /\ l_pc' = "enable"
          /\ UNCHANGED result
       \/ /\ l_pc' = "returned"
          /\ result' = "Err"
    /\ UNCHANGED <<build_vars, config, pause, exit, clock, raw_mode, joined,
                   last_key,
                   pause_keys, engine_vars>>

\* clear_console, the display aside
ClearConsole == ClearConsoleEffect /\ UNCHANGED display_vars

\* let _raw_mode_guard = RawModeGuard::new()?  (enable_raw_mode()?)
EnableRawMode ==
    /\ l_pc = "enable"
    /\ \/ /\ l_pc' = "loop"
          /\ raw_mode' = TRUE
          /\ UNCHANGED result
       \/ /\ l_pc' = "returned"
          /\ result' = "Err"
          /\ UNCHANGED raw_mode
    /\ UNCHANGED <<build_vars, display_vars,
                   config, pause, exit, clock, joined, last_key,
                   pause_keys, engine_vars>>

\* while !exit_flag.load(Relaxed) && !handle.is_finished()
ListenLoop ==
    /\ l_pc = "loop"
    /\ l_pc' = IF ~exit /\ ~EngineFinished THEN "poll" ELSE "join"
    /\ last_key' = "none"
    /\ UNCHANGED <<build_vars, display_vars,
                   config, pause, exit, clock, raw_mode, result,
                   joined,
                   pause_keys, engine_vars>>

\* DropGuard without the call of disable_raw_mode
DropGuard_Leak == UNCHANGED raw_mode

\* impl Drop for RawModeGuard, run when register_listeners is left
DropGuard == raw_mode' = FALSE

\* poll(Duration::from_millis(100))?
Poll ==
    /\ l_pc = "poll"
    /\ \/ /\ l_pc' = "read"
          /\ UNCHANGED <<raw_mode, result>>
       \/ /\ l_pc' = "loop"
          /\ UNCHANGED <<raw_mode, result>>
       \/ /\ l_pc' = "returned"
          /\ result' = "Err"
          /\ DropGuard
    /\ UNCHANGED <<build_vars, display_vars,
                   config, pause, exit, clock, joined, last_key,
                   pause_keys, engine_vars>>

\* KeyEffect storing true on a pause key instead of flipping the flag
KeyEffect_SetPause(code, p, e) ==
    CASE code = "q" -> [pause |-> p, exit |-> (e # TRUE), l_pc |-> "join"]
      [] code \in {"p", "P"} ->
             [pause |-> TRUE, exit |-> e, l_pc |-> "update_paused"]
      [] OTHER -> [pause |-> p, exit |-> e, l_pc |-> "loop"]

\* KeyEffect whose pause arm flips the exit flag
KeyEffect_PauseFlipsExit(code, p, e) ==
    CASE code = "q" -> [pause |-> p, exit |-> (e # TRUE), l_pc |-> "join"]
      [] code \in {"p", "P"} ->
             [pause |-> p, exit |-> (e # TRUE), l_pc |-> "update_paused"]
      [] OTHER -> [pause |-> p, exit |-> e, l_pc |-> "loop"]

\* match event.code: what a key event does to the flags and to the loop
KeyEffect(code, p, e) ==
    CASE code = "q" -> [pause |-> p, exit |-> (e # TRUE), l_pc |-> "join"]
      [] code \in {"p", "P"} ->
             [pause |-> (p # TRUE), exit |-> e, l_pc |-> "update_paused"]
      [] OTHER -> [pause |-> p, exit |-> e, l_pc |-> "loop"]

\* if let Event::Key(event) = read()? { match event.code ... }
ReadEventEffect ==
    /\ l_pc = "read"
    /\ \/ \E code \in KeyCodes :
            LET k == KeyEffect(code, pause, exit) IN
              /\ last_key' = code
              /\ pause' = k.pause
              /\ exit' = k.exit
              /\ l_pc' = k.l_pc
              /\ pause_keys' = IF code \in PauseKeys THEN 1 - pause_keys
                                                      ELSE pause_keys
              /\ UNCHANGED <<raw_mode, result>>
       \/ /\ last_key' = "other_event"
          /\ l_pc' = "loop"
          /\ UNCHANGED <<pause, exit, raw_mode, result, pause_keys>>
       \/ /\ last_key' = "none"
          /\ l_pc' = "returned"
          /\ result' = "Err"
          /\ DropGuard
          /\ UNCHANGED <<pause, exit, pause_keys>>
    /\ UNCHANGED <<build_vars, config, clock, joined, engine_vars>>

\* one key event handled, the display aside
ReadEvent == ReadEventEffect /\ UNCHANGED display_vars

\* update_paused(!paused)
UpdatePaused ==
    /\ l_pc = "update_paused"
    /\ l_pc' = "loop"
    /\ last_key' = "none"
    /\ UNCHANGED <<build_vars, display_vars,
                   config, pause, exit, clock, raw_mode, result,
                   joined,
                   pause_keys, engine_vars>>

\* handle.join().map_err(..): blocks until the engine thread has ended
JoinResult(pc) == IF pc = "panicked" THEN "Err" ELSE "Ok"

Join ==
    /\ l_pc = "join"
    /\ EngineFinished
    /\ joined' = TRUE
    /\ result' = JoinResult(e_pc)
    /\ DropGuard
    /\ l_pc' = "returned"
    /\ last_key' = "none"
    /\ UNCHANGED <<build_vars, display_vars,
                   config, pause, exit, clock, pause_keys,
                   engine_vars>>

\* main: after register_listeners returns the process ends
MainExit ==
    /\ l_pc = "returned"
    /\ l_pc' = "exited"
    /\ UNCHANGED <<build_vars, display_vars,
                   config, pause, exit, clock, raw_mode, result,
                   joined,
                   last_key, pause_keys, engine_vars>>

Listener ==
    \/ ClearConsole
    \/ EnableRawMode
    \/ ListenLoop
    \/ Poll
    \/ ReadEvent
    \/ UpdatePaused
    \/ Join
    \/ MainExit

Next ==
    \/ StartLoop
    \/ StartState
    \/ CheckExit
    \/ CheckPause
    \/ PausedTick
    \/ PausedWake
    \/ Tick
    \/ Wake
    \/ Finish
    \/ NextPhase
    \/ ClearConsole
    \/ EnableRawMode
    \/ ListenLoop
    \/ Poll
    \/ ReadEvent
    \/ UpdatePaused
    \/ Join
    \/ MainExit

Spec == Init /\ [][Next]_vars

\* the configurations the fair runs are followed for: the longest Work phase
FairConfigs ==
    [work_duration : {MaxSecs},
     short_break_duration : {1},
     long_break_duration : {1},
     cycles_before_long_break : 1..MaxCycles]

FairInit ==
    /\ NoBuild
    /\ config \in FairConfigs
    /\ clock = "SystemClock"
    /\ e_pc = "start_loop"
    /\ l_pc = "clear"
    /\ InitState

\* the engine thread is scheduled; the listener's steps depend on the terminal
FairSpec == FairInit /\ [][Next]_vars /\ WF_vars(Engine)

\* ------------------------------------------------- the run without an end
\* The loop of start() followed for any number of phases: what is recorded
\* about the phases visited is kept for the current phase only, and the
\* counter is followed up to the first value above every threshold (all
\* larger values compare unequal to cycles_before_long_break alike).

CounterCap == MaxCycles + 1

\* start: while !self.state.exit.load(Relaxed)
LiveStartLoop ==
    /\ Running
    /\ e_pc = "start_loop"
    /\ e_pc' = IF exit THEN "done" ELSE "start_state"
    /\ UNCHANGED <<build_vars, display_vars,
                   config, state_type, cycles_completed, pause,
                   exit, clock,
                   total_secs, now, fake_now, phases, unpaused, exit_break,
                   alerts, completed, sleeps_after_exit, listener_vars>>

\* self.next()
LiveNextPhase ==
    /\ Running
    /\ e_pc = "next"
    /\ LET n == NextState(state_type, cycles_completed, config) IN
         /\ state_type' = n.state_type
         /\ cycles_completed' = Min(n.cycles_completed, CounterCap)
         /\ phases' = <<n.state_type>>
    /\ alerts' = 0
    /\ completed' = 0
    /\ e_pc' = "start_loop"
    /\ UNCHANGED <<build_vars, display_vars,
                   config, pause, exit, clock, total_secs, now,
                   fake_now,
                   unpaused, exit_break, sleeps_after_exit, listener_vars>>

LiveEngine ==
    \/ LiveStartLoop
    \/ StartState
    \/ CheckExit
    \/ CheckPause
    \/ PausedTick
    \/ PausedWake
    \/ Tick
    \/ Wake
    \/ Finish
    \/ LiveNextPhase

LiveNext ==
    \/ LiveStartLoop
    \/ StartState
    \/ CheckExit
    \/ CheckPause
    \/ PausedTick
    \/ PausedWake
    \/ Tick
    \/ Wake
    \/ Finish
    \/ LiveNextPhase
    \/ ClearConsole
    \/ EnableRawMode
    \/ ListenLoop
    \/ Poll
    \/ ReadEvent
    \/ UpdatePaused
    \/ Join
    \/ MainExit

\* the configurations the endless runs are followed for: the long break after
\* the first Work phase, and after the largest number of them
LiveConfigs ==
    [work_duration : {MaxSecs},
     short_break_duration : {1},
     long_break_duration : {1},
     cycles_before_long_break : {1, MaxCycles}]

LiveInit ==
    /\ NoBuild
    /\ config \in LiveConfigs
    /\ clock = "SystemClock"
    /\ e_pc = "start_loop"
    /\ l_pc = "clear"
    /\ InitState

\* the engine thread is scheduled whenever it can take a step; every sleep
\* returns with the clock advanced (SleepReturns)
LiveSpec == LiveInit /\ [][LiveNext]_vars /\ WF_vars(LiveEngine)

\* ------------------------------------------------------------ the console
\* console::update_status and console::update_paused step by step: both hold
\* the lock of stdout from their first line to their return.  Row 1 of the
\* terminal is "" until it is written and after the screen is cleared.

\* update_paused_internal: pause_msg
PauseMsg(paused) ==
    IF paused THEN "(Paused) Press 'p' to resume" ELSE "Press 'p' to pause"

\* where the engine calls self.status.update(&self.state)
UpdateSites == {"start_state", "paused_tick", "tick"}

\* UpdateStatusLock writing without taking the lock of stdout
UpdateStatusLock_Unlocked ==
    /\ Running
    /\ e_pc \in UpdateSites
    /\ upd = "out"
    /\ upd' = "locked"
    /\ UNCHANGED <<build_vars, stdout_lock, line2, e_paused, l_paused, config,
                   pause, exit, clock, engine_vars, listener_vars>>

\* update_status: let mut out = stdout().lock(); row 0 is rewritten
UpdateStatusLock ==
    /\ Running
    /\ e_pc \in UpdateSites
    /\ upd = "out"
    /\ stdout_lock = "free"
    /\ stdout_lock' = "engine"
    /\ upd' = "locked"
    /\ UNCHANGED <<build_vars, line2, e_paused, l_paused, config,
                   pause, exit, clock, engine_vars, listener_vars>>

\* update_status: state.pause.load(Relaxed)
UpdateStatusLoad ==
    /\ Running
    /\ upd = "locked"
    /\ e_paused' = pause
    /\ upd' = "loaded"
    /\ UNCHANGED <<build_vars, stdout_lock, line2, l_paused, config,
                   pause, exit, clock, engine_vars, listener_vars>>

\* update_paused_internal(&mut out, ..) and the return of update_status
UpdateStatusWrite ==
    /\ Running
    /\ upd = "loaded"
    /\ line2' = PauseMsg(e_paused)
    /\ stdout_lock' = IF stdout_lock = "engine" THEN "free" ELSE stdout_lock
    /\ upd' = "done"
    /\ UNCHANGED <<build_vars, e_paused, l_paused, config,
                   pause, exit, clock, engine_vars, listener_vars>>

\* the engine goes on once self.status.update has returned
StatusUpdated ==
    /\ upd = "done"
    /\ upd' = "out"
    /\ UNCHANGED <<stdout_lock, line2, e_paused, l_paused>>

StartStateShown == StartStateEffect /\ StatusUpdated

PausedTickShown == PausedTickEffect /\ StatusUpdated

TickShown == TickEffect /\ StatusUpdated

\* clear_console under the lock of stdout: Clear(ClearType::All)
ClearConsoleShown ==
    /\ ClearConsoleEffect
    /\ stdout_lock = "free"
    /\ line2' = ""
    /\ UNCHANGED <<stdout_lock, upd, e_paused, l_paused>>

\* let paused = pause_flag.fetch_xor(true, SeqCst); the argument is !paused
ReadEventShown ==
    /\ ReadEventEffect
    /\ l_paused' = IF l_pc' = "update_paused" THEN ~pause ELSE l_paused
    /\ UNCHANGED <<stdout_lock, line2, upd, e_paused>>

\* update_paused: let mut out = stdout().lock()
UpdatePausedLock ==
    /\ l_pc = "update_paused"
    /\ stdout_lock = "free"
    /\ stdout_lock' = "listener"
    /\ l_pc' = "writing_paused"
    /\ UNCHANGED <<build_vars, line2, upd, e_paused, l_paused, config, pause,
                   exit, clock, raw_mode, result, joined, last_key,
                   pause_keys, engine_vars>>

\* update_paused_internal(&mut out, paused) and the return of update_paused
UpdatePausedWrite ==
    /\ l_pc = "writing_paused"
    /\ line2' = PauseMsg(l_paused)
    /\ stdout_lock' = "free"
    /\ l_pc' = "loop"
    /\ last_key' = "none"
    /\ UNCHANGED <<build_vars, upd, e_paused, l_paused, config, pause,
                   exit, clock, raw_mode, result, joined,
                   pause_keys, engine_vars>>

\* the configuration the console is followed for
DisplayConfigs ==
    [work_duration : {MaxSecs},
     short_break_duration : {1},
     long_break_duration : {1},
     cycles_before_long_break : {1}]

DisplayInit ==
    /\ NoBuild
    /\ config \in DisplayConfigs
    /\ clock = "SystemClock"
    /\ e_pc = "start_loop"
    /\ l_pc = "clear"
    /\ InitState

DisplayNext ==
    \/ LiveStartLoop
    \/ UpdateStatusLock
    \/ UpdateStatusLoad
    \/ UpdateStatusWrite
    \/ StartStateShown
    \/ CheckExit
    \/ CheckPause
    \/ PausedTickShown
    \/ PausedWake
    \/ TickShown
    \/ Wake
    \/ Finish
    \/ LiveNextPhase
    \/ ClearConsoleShown
    \/ EnableRawMode
    \/ ListenLoop
    \/ Poll
    \/ ReadEventShown
    \/ UpdatePausedLock
    \/ UpdatePausedWrite
    \/ Join
    \/ MainExit

DisplaySpec == DisplayInit /\ [][DisplayNext]_vars

\* ----------------------------------------------------------- Config::build
\* Arguments are sequences of characters.  A u64 is kept as four 16-bit limbs,
\* least significant first, a u32 as two.

Limb == 65536

Zero64 == <<0, 0, 0, 0>>

\* n * m + a in u64, and whether the result left the 64 bits
MulAdd(n, m, a) ==
    LET t1 == n[1] * m + a
        t2 == n[2] * m + t1 \div Limb
        t3 == n[3] * m + t2 \div Limb
        t4 == n[4] * m + t3 \div Limb
    IN [value |-> <<t1 % Limb, t2 % Limb, t3 % Limb, t4 % Limb>>,
        overflow |-> t4 \div Limb > 0]

DigitValue ==
    ("0" :> 0) @@ ("1" :> 1) @@ ("2" :> 2) @@ ("3" :> 3) @@ ("4" :> 4) @@
    ("5" :> 5) @@ ("6" :> 6) @@ ("7" :> 7) @@ ("8" :> 8) @@ ("9" :> 9)

RECURSIVE ParseDigits(_, _, _)
ParseDigits(s, i, acc) ==
    IF i > Len(s) THEN [ok |-> TRUE, value |-> acc]
    ELSE IF s[i] \notin DOMAIN DigitValue THEN [ok |-> FALSE, value |-> Zero64]
    ELSE LET r == MulAdd(acc, 10, DigitValue[s[i]]) IN
           IF r.overflow THEN [ok |-> FALSE, value |-> Zero64]
           ELSE ParseDigits(s, i + 1, r.value)

\* val.parse::<u64>(): decimal digits after an optional +
ParseU64(s) ==
    IF s = <<>> THEN [ok |-> FALSE, value |-> Zero64]
    ELSE IF s[1] = "+"
      THEN IF Len(s) = 1 THEN [ok |-> FALSE, value |-> Zero64]
           ELSE ParseDigits(s, 2, Zero64)
      ELSE ParseDigits(s, 1, Zero64)

\* the option names of parse_param
WorkKeys == {<<"-", "-", "w", "o", "r", "k">>, <<"-", "w">>}

ShortBreakKeys ==
    {<<"-", "-", "s", "h", "o", "r", "t", "-", "b", "r", "e", "a", "k">>,
     <<"-", "s">>}

LongBreakKeys ==
    {<<"-", "-", "l", "o", "n", "g", "-", "b", "r", "e", "a", "k">>,
     <<"-", "l">>}

CyclesKeys == {<<"-", "-", "c", "y", "c", "l", "e", "s">>, <<"-", "c">>}

HelpKeys == {<<"-", "-", "h", "e", "l", "p">>, <<"-", "h">>}

Some(v) == [some |-> TRUE, v |-> v]

None == [some |-> FALSE, v |-> <<>>]

Err(text, arg) == [kind |-> "Err", msg |-> [text |-> text, arg |-> arg]]

\* Config::help_text
HelpText == [text |-> "Usage: pomodorro-rust [options]:", arg |-> <<>>]

\* Config::parse_string over value_option.ok_or(..)
ParseString(key, value_option) ==
    IF ~value_option.some
      THEN Err("Expected value for parameter: ", key)
      ELSE LET r == ParseU64(value_option.v) IN
             IF r.ok THEN [kind |-> "Ok", value |-> r.value]
             ELSE Err("Failed to parse value: ", value_option.v)

\* Duration::from_mins(mins): seconds, or a panic when they overflow u64
FromMins(param, mins) ==
    LET r == MulAdd(mins, 60, 0) IN
      IF r.overflow THEN [kind |-> "panic"]
      ELSE [kind |-> "Param", param |-> param, value |-> r.value]

\* u32_value? as u32
AsU32(v) == <<v[1], v[2]>>

\* Config::parse_param
ParseParam(key, value_option) ==
    LET u32_value == ParseString(key, value_option)
        Duration(param) == IF u32_value.kind = "Err" THEN u32_value
                           ELSE FromMins(param, u32_value.value)
    IN
      IF key \in HelpKeys THEN [kind |-> "Help"]
      ELSE IF key \in WorkKeys THEN Duration("work_duration")
      ELSE IF key \in ShortBreakKeys THEN Duration("short_break_duration")
      ELSE IF key \in LongBreakKeys THEN Duration("long_break_duration")
      ELSE IF key \in CyclesKeys
        THEN IF u32_value.kind = "Err" THEN u32_value
             ELSE [kind |-> "Param", param |-> "cycles_before_long_break",
                   value |-> AsU32(u32_value.value)]
      ELSE Err("Unknown parameter: ", key)

\* Config::new_default: durations in seconds
NewDefault ==
    [work_duration |-> <<25 * 60, 0, 0, 0>>,
     short_break_duration |-> <<5 * 60, 0, 0, 0>>,
     long_break_duration |-> <<15 * 60, 0, 0, 0>>,
     cycles_before_long_break |-> <<4, 0>>]

\* the while loop of Config::build, from the argument at position i
RECURSIVE BuildFrom(_, _, _)
BuildFrom(a, i, cfg) ==
    IF i > Len(a) THEN [kind |-> "Ok", config |-> cfg]
    ELSE LET key == a[i]
             value == IF i + 1 <= Len(a) THEN Some(a[i + 1]) ELSE None
             config_option == ParseParam(key, value)
         IN CASE config_option.kind = "Err" -> config_option
              [] config_option.kind = "panic" -> config_option
              [] config_option.kind = "Help" ->
                   [kind |-> "Err", msg |-> HelpText]
              [] config_option.kind = "Param" ->
                   BuildFrom(a, i + 2,
                     [cfg EXCEPT ![config_option.param] = config_option.value])

\* Config::build(&args): args.iter().skip(1)
ConfigBuild(a) == BuildFrom(a, 2, NewDefault)

ProgramName == <<"p", "o", "m", "o">>

\* the arguments the build is followed for
ArgTokens ==
    {<<"-", "-", "w", "o", "r", "k">>, <<"-", "w">>, <<"-", "s">>, <<"-", "l">>,
     <<"-", "-", "c", "y", "c", "l", "e", "s">>, <<"-", "h">>,
     <<"-", "-", "b", "o", "g", "u", "s">>,
     <<"6">>, <<"0">>, <<"a", "b", "c">>,
     <<"4", "2", "9", "4", "9", "6", "7", "2", "9", "7">>,
     <<"1", "8", "4", "4", "6", "7", "4", "4", "0", "7", "3", "7", "0", "9",
       "5", "5", "1", "6", "1", "5">>}

ArgLists ==
    UNION {[1..n -> ArgTokens] : n \in 0..MaxArgs}

\* the engine does not exist before the Config is built
UnbuiltConfig == CHOOSE c \in Configs : TRUE

BuildInit ==
    /\ args \in {<<ProgramName>> \o rest : rest \in ArgLists}
    /\ build_result = [kind |-> "none"]
    /\ config = UnbuiltConfig
    /\ clock = "SystemClock"
    /\ e_pc = "unspawned"
    /\ l_pc = "unspawned"
    /\ InitState

\* main: conf::Config::build(&args)
Build ==
    /\ build_result.kind = "none"
    /\ args # <<>>
    /\ build_result' = ConfigBuild(args)
    /\ UNCHANGED <<args, display_vars, config, pause, exit, clock,
                   engine_vars, listener_vars>>

BuildNext == Build

BuildSpec == BuildInit /\ [][BuildNext]_vars

\* ------------------------------------------- the engine under a FakeClock
\* new_pomodoro_with_fakes(), then one phase run by start_state: no listener,
\* both flags stay false
FakeInit ==
    /\ NoBuild
    /\ config \in Configs
    /\ clock = "FakeClock"
    /\ e_pc = "start_state"
    /\ l_pc = "absent"
    /\ InitState

\* FakeClock.sleep takes no time, but the system clock read by
\* start.elapsed() goes on while the loop runs
RealTimePasses ==
    /\ clock = "FakeClock"
    /\ e_pc \in {"check_exit", "check_pause", "tick", "sleeping"}
    /\ now < MaxNow
    /\ now' = now + 1
    /\ UNCHANGED <<build_vars, display_vars,
                   config, state_type, cycles_completed, pause,
                   exit, clock,
                   e_pc, total_secs, fake_now, phases, unpaused, exit_break,
                   alerts, completed, sleeps_after_exit, listener_vars>>

FakeNext ==
    \/ StartState
    \/ CheckExit
    \/ CheckPause
    \/ Tick
    \/ Wake
    \/ Finish
    \/ RealTimePasses

FakeSpec == FakeInit /\ [][FakeNext]_vars

TypeOK ==
    /\ config \in Configs
    /\ state_type \in StateTypes
    /\ cycles_completed \in 0..(MaxPhases + 1)
    /\ pause \in BOOLEAN
    /\ exit \in BOOLEAN
    /\ now \in 0..MaxNow
    /\ unpaused \in 0..MaxNow

\* ------------------------------------------------------------- properties

cycles_before_long_break == config.cycles_before_long_break

\* the phase the documented sequence has at position i (from 1)
ExpectedPhase(i, n) ==
    IF i % 2 = 1 THEN "Work"
    ELSE IF i = 2 * n THEN "LongBreak" ELSE "ShortBreak"

ShortBreaksBefore(k) ==
    Cardinality({i \in 1..(k - 1) : phases[i] = "ShortBreak"})

\* C1: with cycles_before_long_break = N the phases visited from the initial
\* state are Work, ShortBreak, ..., Work, LongBreak: the first LongBreak is the
\* 2N-th phase, N-1 ShortBreaks precede it, and cycles_completed = N on entry.
C1_PhaseSequence ==
    LET n == cycles_before_long_break IN
      /\ \A i \in 1..Min(Len(phases), 2 * n) : phases[i] = ExpectedPhase(i, n)
      /\ state_type = phases[Len(phases)]
      /\ Len(phases) = 2 * n =>
           /\ state_type = "LongBreak"
           /\ cycles_completed = n
           /\ ShortBreaksBefore(2 * n) = n - 1

C1_Witness ==
    /\ cycles_before_long_break = 2
    /\ phases = <<"Work", "ShortBreak", "Work", "LongBreak">>
    /\ cycles_completed = 2

\* C2: a phase whose wait loop was left because the exit flag was seen true
\* ends without a call of the notifier.
C2_NoAlertOnExit ==
    [][(e_pc = "finish" /\ exit_break) => alerts' = alerts]_vars

\* C3: outside the span between the end of the wait loop and the alert, the
\* number of alerts equals the number of phases whose countdown reached its
\* duration.
C3_AlertsEqualCompleted ==
    e_pc # "finish" => alerts = completed

\* C4: a phase that completes normally has slept at least its duration outside
\* the pause branch: paused time does not count toward the phase.
C4_PausedTimeNotCounted ==
    (e_pc = "finish" /\ ~exit_break) => unpaused >= total_secs * TicksPerSec

\* C5: under the FakeClock, with both flags false, progress_duration returns
\* after one alert with the FakeClock advanced by the phase duration, within
\* one tick.
C5_FakeClockAdvance ==
    e_pc = "next" =>
      /\ alerts = 1
      /\ fake_now >= total_secs * TicksPerSec - 1
      /\ fake_now <= total_secs * TicksPerSec + 1

\* C6: once the exit flag is true the engine thread ends, whatever the phase
\* and the pause flag.
C6_ExitTerminates == exit ~> EngineFinished

C6_Witness ==
    /\ exit
    /\ pause
    /\ e_pc = "done"

\* C7: after the exit flag has become true the engine enters clock.sleep at
\* most once more.
C7_OneSleepAfterExit == sleeps_after_exit <= 1

C7_Witness ==
    /\ sleeps_after_exit = 1
    /\ e_pc = "done"
    /\ pause

Returned == l_pc \in {"returned", "exited"}

\* C8: register_listeners has joined the engine thread whenever it has
\* returned, and an engine panic is returned as Err.
C8_JoinedOnReturn ==
    Returned =>
      /\ joined
      /\ e_pc = "panicked" => result = "Err"

\* C9: raw mode is off in every state in which register_listeners has
\* returned, and in every state before it was enabled.
C9_RawModeRestored ==
    (Returned \/ l_pc \in {"clear", "enable"}) => ~raw_mode

\* the listener returned an I/O error from the event loop: raw mode was on
C9_Witness ==
    /\ l_pc = "returned"
    /\ result = "Err"
    /\ ~joined
    /\ pause

\* C10: a key event q or Q sets the exit flag, p or P flips the pause flag and
\* leaves exit, any other key leaves both flags as they were.
C10_KeyEffects ==
    [][(l_pc = "read" /\ last_key' \in KeyCodes) =>
         /\ last_key' \in {"q", "Q"} => exit'
         /\ last_key' \in {"p", "P"} => (pause' = ~pause /\ exit' = exit)
         /\ last_key' \notin {"q", "Q", "p", "P"} =>
              (pause' = pause /\ exit' = exit)]_vars

\* a step of next(), and of each thread
NextCalled == e_pc = "next" /\ e_pc' = "start_loop"

EngineStep == e_pc' # e_pc

ListenerStep == l_pc' # l_pc

\* C14: next() adds 1 to cycles_completed when it leaves Work and only then;
\* from a break it yields Work; it leaves the pause and exit flags alone.
C14_NextFrame ==
    [][NextCalled =>
         /\ state_type = "Work" =>
              /\ cycles_completed' = cycles_completed + 1
              /\ state_type' \in {"ShortBreak", "LongBreak"}
         /\ state_type # "Work" =>
              /\ cycles_completed' = cycles_completed
              /\ state_type' = "Work"
         /\ pause' = pause
         /\ exit' = exit]_vars

C14_Witness ==
    /\ Len(phases) >= 3
    /\ phases[3] = "Work"
    /\ cycles_completed = 1

\* Work phases that were left, and those left because the countdown reached
\* the work duration (only the last phase left can have been cut short)
WorkLeft ==
    Cardinality({i \in 1..(Len(phases) - 1) : phases[i] = "Work"})

WorkReached ==
    WorkLeft - (IF exit_break /\ phases[Len(phases) - 1] = "Work"
                  THEN 1 ELSE 0)

\* C15: between phases cycles_completed is the number of Work phases whose
\* countdown reached the work duration; a Work phase cut short by exit is not
\* counted.
C15_CountsCompletedWork ==
    e_pc \in {"start_loop", "done"} => cycles_completed = WorkReached

LongBreaks == {i \in 1..Len(phases) : phases[i] = "LongBreak"}

\* C16: cycles_completed counts every Work phase left and is never reset, so
\* LongBreak is entered at most once and every Work phase after it is followed
\* by ShortBreak.
C16_OneLongBreak ==
    /\ Cardinality(LongBreaks) <= 1
    /\ e_pc \in {"start_loop", "done"} => cycles_completed = WorkLeft
    /\ \A i \in LongBreaks : \A j \in i..(Len(phases) - 1) :
         phases[j] = "Work" => phases[j + 1] = "ShortBreak"

C16_Witness ==
    /\ cycles_before_long_break = 1
    /\ phases = <<"Work", "LongBreak", "Work", "ShortBreak">>

\* the engine is between a pause test that saw the flag set and the next one
InPauseBranch ==
    \/ e_pc = "check_pause" /\ pause
    \/ e_pc \in {"paused_tick", "paused_sleeping"}
    \/ e_pc = "check_exit" /\ ~exit /\ pause

\* C17: while the engine's pause tests see the flag set and exit is false, no
\* step completes or advances the phase or calls the notifier.
C17_PausedNoProgress ==
    [][InPauseBranch =>
         /\ state_type' = state_type
         /\ cycles_completed' = cycles_completed
         /\ alerts' = alerts
         /\ completed' = completed
         /\ e_pc' \notin {"finish", "next", "start_loop"}]_vars

\* paused for longer than the phase lasts, and the phase is still running
C17_Witness ==
    /\ pause
    /\ ~exit
    /\ e_pc = "paused_sleeping"
    /\ now >= total_secs * TicksPerSec
    /\ unpaused = 0

\* C18: the engine never writes a flag, the listener never writes the phase or
\* the counter, and pause is the parity of the pause keys handled.
C18_SingleWriter ==
    /\ [](pause = (pause_keys = 1))
    /\ [][/\ EngineStep => (pause' = pause /\ exit' = exit)
          /\ ListenerStep => /\ state_type' = state_type
                             /\ cycles_completed' = cycles_completed]_vars

C18_Witness ==
    /\ pause
    /\ pause_keys = 1
    /\ Len(phases) >= 2
    /\ l_pc = "poll"

\* C19: exit starts false, turns true only when the listener handles q, and
\* stays true; after that no key event is read and pause does not change.
C19_ExitStable ==
    /\ ~exit
    /\ [][/\ exit' # exit => (exit' /\ l_pc = "read" /\ last_key' = "q")
          /\ exit => (exit' /\ pause' = pause /\ l_pc # "read")]_vars

C19_Witness ==
    /\ exit
    /\ pause
    /\ l_pc = "returned"
    /\ joined

WorkEntered == e_pc = "start_state" /\ state_type = "Work"

\* the engine thread is alive: the process has not ended and the thread has
\* not been unwound by a failed write of the notifier
EngineAlive == Running /\ e_pc # "panicked"

\* C20: start() returns only when exit is true; and in a run of the scheduled
\* engine in which exit is never set and pause is false from some point on,
\* every phase ends and the next begins, so Work is entered again and again.
C20_WorkInfinitelyOften ==
    /\ [](e_pc = "done" => exit)
    /\ ([]~exit /\ <>[]~pause /\ []EngineAlive) => []<>WorkEntered

\* Work is entered with more Work phases behind than any threshold
C20_Witness ==
    /\ WorkEntered
    /\ cycles_completed = CounterCap
    /\ ~exit
    /\ ~pause
    /\ l_pc = "poll"

\* no thread is inside a display update, and the listener is not between
\* flipping the pause flag and the end of its refresh
DisplayAtRest ==
    /\ upd \notin {"locked", "loaded"}
    /\ l_pc \notin {"update_paused", "writing_paused"}

\* C21: whenever the display is at rest, row 1 of the terminal, when it has
\* been written, shows the message for the current value of the pause flag.
C21_PauseHintCurrent ==
    (DisplayAtRest /\ line2 # "") => line2 = PauseMsg(pause)

\* the engine loaded pause = false, the listener flipped the flag and then
\* refreshed the line after the engine's write
C21_Witness ==
    /\ DisplayAtRest
    /\ pause
    /\ ~e_paused
    /\ l_paused
    /\ line2 = PauseMsg(TRUE)
    /\ upd = "done"
    /\ l_pc = "poll"

\* ----------------------------------------------- properties of Config::build

BuildDone == build_result.kind # "none"

\* positions of the option names in the argument list
KeyPositions == {i \in 2..Len(args) : i % 2 = 0}

HasValue(i) == i + 1 <= Len(args)

OptionKeys == WorkKeys \cup ShortBreakKeys \cup LongBreakKeys \cup CyclesKeys

IsNumeric(tok) ==
    /\ tok # <<>>
    /\ \A i \in 1..Len(tok) : tok[i] \in DOMAIN DigitValue

\* the last value given for one of the option names, if any
Occurrences(keys) == {i \in KeyPositions : args[i] \in keys}

LastValue(keys) ==
    LET last == CHOOSE i \in Occurrences(keys) :
                  \A j \in Occurrences(keys) : j <= i
    IN args[last + 1]

\* 60 seconds times the decimal number tok, as a u64
Minutes(tok) == MulAdd(ParseU64(tok).value, 60, 0)

DurationAsGiven(d, keys, default) ==
    IF Occurrences(keys) = {} THEN d = <<default * 60, 0, 0, 0>>
    ELSE /\ ParseU64(LastValue(keys)).ok
         /\ ~Minutes(LastValue(keys)).overflow
         /\ d = Minutes(LastValue(keys)).value

CyclesAsGiven(c) ==
    IF Occurrences(CyclesKeys) = {} THEN c = <<4, 0>>
    ELSE /\ ParseU64(LastValue(CyclesKeys)).ok
         /\ <<c[1], c[2], 0, 0>> = ParseU64(LastValue(CyclesKeys)).value

OnlyNumericOptions ==
    \A i \in KeyPositions :
      /\ args[i] \in OptionKeys
      /\ HasValue(i)
      /\ IsNumeric(args[i + 1])

\* C11: for an argument list of recognised options with numeric values and no
\* help option, build returns Ok with every duration 60 s times the last value
\* of its option, the cycle count the last value of --cycles/-c, defaults
\* (25, 5, 15 minutes, 4 cycles) elsewhere.
C11_BuildTakesLastValues ==
    (BuildDone /\ OnlyNumericOptions) =>
      /\ build_result.kind = "Ok"
      /\ DurationAsGiven(build_result.config.work_duration, WorkKeys, 25)
      /\ DurationAsGiven(build_result.config.short_break_duration,
                         ShortBreakKeys, 5)
      /\ DurationAsGiven(build_result.config.long_break_duration,
                         LongBreakKeys, 15)
      /\ CyclesAsGiven(build_result.config.cycles_before_long_break)

\* what is wrong with the pair at key position i, if anything
PairFault(i) ==
    IF args[i] \in HelpKeys THEN "help"
    ELSE IF args[i] \notin OptionKeys THEN "unknown"
    ELSE IF ~HasValue(i) THEN "missing"
    ELSE IF ~IsNumeric(args[i + 1]) THEN "non-numeric"
    ELSE "none"

Offending == {i \in KeyPositions :
                PairFault(i) \in {"unknown", "missing", "non-numeric"}}

FirstOf(S) == CHOOSE i \in S : \A j \in S : i <= j

\* the message the claim gives for the offending pair at i
FaultMessage(i) ==
    CASE PairFault(i) = "unknown" -> Err("Unknown parameter: ", args[i]).msg
      [] PairFault(i) = "missing" ->
           Err("Expected value for parameter: ", args[i]).msg
      [] PairFault(i) = "non-numeric" ->
           Err("Failed to parse value: ", args[i + 1]).msg

\* C12 as stated: whenever the list has an unknown option, a non-numeric value
\* or a missing value, build returns Err with the message of the first such
\* pair.
C12_FirstOffendingPairErr ==
    (BuildDone /\ Offending # {}) =>
      /\ build_result.kind = "Err"
      /\ build_result.msg = FaultMessage(FirstOf(Offending))

\* C13: every Config returned as Ok has three positive durations and a cycle
\* count >= 1 that is the number the user gave.
C13_BuiltConfigValid ==
    build_result.kind = "Ok" =>
      /\ build_result.config.work_duration # Zero64
      /\ build_result.config.short_break_duration # Zero64
      /\ build_result.config.long_break_duration # Zero64
      /\ build_result.config.cycles_before_long_break # <<0, 0>>
      /\ CyclesAsGiven(build_result.config.cycles_before_long_break)

====
